---------------------------- MODULE Spec2Model ----------------------------
(***************************************************************************)
(* A model of src/klr.core45/klr.core45.cpp: the native bootstrapper that  *)
(* locates coreclr.dll (LoadCoreClr), builds the trusted-platform-assembly *)
(* list (ScanDirectory) and drives the CLR host interface                  *)
(* (CallApplicationMain).                                                  *)
(*                                                                         *)
(* Strings are TLA+ strings; a fixed-capacity WCHAR buffer is the string   *)
(* it holds together with the capacity its writers are given.  The secure  *)
(* CRT functions are modelled in the mode the code is written for: on      *)
(* overflow they return ERANGE and leave the destination empty.            *)
(***************************************************************************)
EXTENDS Integers, Sequences, FiniteSets, TLC

(***************************************************************************)
(* Bounds.  The two buffer capacities are scaled down from the program's   *)
(* values (MAX_PATH is 260, the TPA buffer holds 63 * 1024 characters) so  *)
(* that short strings reach them.                                          *)
(***************************************************************************)
MAX_PATH == 32

TRUSTED_PLATFORM_ASSEMBLIES_STRING_BUFFER_SIZE_CCH == 60

MaxFiles == 3

\* DWORD arithmetic wraps; the modulus is 2^16 here instead of 2^32 (TLC's
\* integers are 32-bit), still far above every buffer index.
DWORD_MOD == 65536

ERANGE == 34

(***************************************************************************)
(* String helpers.                                                         *)
(***************************************************************************)
RECURSIVE Pad(_)
Pad(n) == IF n <= 0 THEN "" ELSE "x" \o Pad(n - 1)

\* The character of s at 0-based index i, or "" at the terminator.
CharAt(s, i) == IF i < Len(s) THEN SubSeq(s, i + 1, i + 1) ELSE ""

EndsWith(s, suffix) ==
    /\ Len(s) >= Len(suffix)
    /\ SubSeq(s, Len(s) - Len(suffix) + 1, Len(s)) = suffix

LowerChar(c) ==
    CASE c = "A" -> "a" [] c = "B" -> "b" [] c = "C" -> "c" [] c = "D" -> "d"
      [] c = "E" -> "e" [] c = "F" -> "f" [] c = "G" -> "g" [] c = "H" -> "h"
      [] c = "I" -> "i" [] c = "J" -> "j" [] c = "K" -> "k" [] c = "L" -> "l"
      [] c = "M" -> "m" [] c = "N" -> "n" [] c = "O" -> "o" [] c = "P" -> "p"
      [] c = "Q" -> "q" [] c = "R" -> "r" [] c = "S" -> "s" [] c = "T" -> "t"
      [] c = "U" -> "u" [] c = "V" -> "v" [] c = "W" -> "w" [] c = "X" -> "x"
      [] c = "Y" -> "y" [] c = "Z" -> "z" [] OTHER -> c

RECURSIVE Lower(_)
Lower(s) == IF s = "" THEN "" ELSE LowerChar(Head(s)) \o Lower(Tail(s))

(***************************************************************************)
(* The secure CRT string functions.  Each returns the error number and the *)
(* destination's new content; cch counts the terminator.                   *)
(***************************************************************************)
wcscpy_s(cch, src) ==
    IF Len(src) + 1 <= cch
    THEN [errno |-> 0, dest |-> src]
    ELSE [errno |-> ERANGE, dest |-> ""]

wcscat_s(dest, cch, src) ==
    IF Len(dest) + Len(src) + 1 <= cch
    THEN [errno |-> 0, dest |-> dest \o src]
    ELSE [errno |-> ERANGE, dest |-> ""]

FAILED(h) == h # "S_OK"

HRESULTS == {"S_OK", "E_FAIL"}

(***************************************************************************)
(* GetModuleDirectory (lines 18-23).  dirLength is a DWORD, so the loop    *)
(* guard dirLength >= 0 is always true and the index wraps below zero.     *)
(* ScanBack is the index the loop stops at, or OutOfBounds when the loop   *)
(* reads szPath outside its MAX_PATH elements.                             *)
(***************************************************************************)
OutOfBounds == 0 - 1

RECURSIVE ScanBack(_, _)
ScanBack(szPath, dirLength) ==
    IF dirLength >= MAX_PATH THEN OutOfBounds
    ELSE IF CharAt(szPath, dirLength) = "\\" THEN dirLength
    ELSE ScanBack(szPath, (dirLength - 1) % DWORD_MOD)

\* fileName is what GetModuleFileName stored, its length what it returned.
GetModuleDirectoryIndex(fileName) ==
    ScanBack(fileName, (Len(fileName) - 1) % DWORD_MOD)

GetModuleDirectory(fileName) ==
    SubSeq(fileName, 1, GetModuleDirectoryIndex(fileName) + 1)

(***************************************************************************)
(* Inputs.                                                                 *)
(***************************************************************************)
\* data->klrDirectory: absent, or a string: without and with a trailing
\* separator, and one that does not fit MAX_PATH characters.
KlrDirectories ==
    { [isNull |-> TRUE, str |-> ""],
      [isNull |-> FALSE, str |-> "k"],
      [isNull |-> FALSE, str |-> Pad(MAX_PATH - 13) \o "\\"],
      [isNull |-> FALSE, str |-> Pad(MAX_PATH)] }

\* GetModuleFileName(NULL, ...): the executable's full path, or "" (length
\* 0) when the call fails.
ExePaths == {"e\\klr.exe", ""}

\* CORECLR_DIR: "" stands for an unset variable (GetEnvironmentVariableW
\* returns 0).
EnvCoreClrDirs ==
    {"", "c", Pad(MAX_PATH - 15) \o "\\", Pad(MAX_PATH - 11)}

\* #if KRE_TARGET_OS == Win7PlusCoreSystem (line 116).
BuildTargets == {"Win7PlusCoreSystem", "Other"}

\* rgwzOSLoaderModuleNames (lines 121-125), NULL terminated.
rgwzOSLoaderModuleNames ==
    <<"api-ms-win-core-libraryloader-l1-1-1.dll", "kernel32.dll", "NULL">>

\* What the OS has for a loader module: whether it loads and which of the
\* two exports it carries.
OSLoaderModules ==
    { m \in [loads : BOOLEAN, AddDllDirectory : BOOLEAN,
             SetDefaultDllDirectories : BOOLEAN] :
        ~m.loads => (~m.AddDllDirectory /\ ~m.SetDefaultDllDirectories) }

NoModule == [loads |-> FALSE, AddDllDirectory |-> FALSE,
             SetDefaultDllDirectories |-> FALSE]

FullModule == [loads |-> TRUE, AddDllDirectory |-> TRUE,
               SetDefaultDllDirectories |-> TRUE]

\* The systems the scan of lines 138-197 can run on: the API set in any
\* state, kernel32.dll absent or complete.
OSLoaders ==
    { l \in [1..2 -> OSLoaderModules] : l[2] \in {NoModule, FullModule} }

\* The relative development-tree path of lines 224-228.
DevelopmentPath ==
    "..\\..\\..\\artifacts\\build\\ProjectK\\Runtime\\x86\\coreclr.dll"

\* Full path GetModuleFileName reports for a coreclr.dll loaded from the
\* development tree or through the system search path.
DevModulePath == "d\\coreclr.dll"

BareModulePath == "s\\coreclr.dll"

\* Directory entries FindFirstFile / FindNextFile can return.
DirEntries ==
    { [cFileName |-> "a.ni.dll", isDirectory |-> FALSE],
      [cFileName |-> "KLR.HOST.NI.DLL", isDirectory |-> FALSE],
      [cFileName |-> "a.dll", isDirectory |-> FALSE],
      [cFileName |-> "klr.host.ni.dll", isDirectory |-> FALSE],
      [cFileName |-> "d.ni.dll", isDirectory |-> TRUE] }

\* A directory's content in enumeration order: no name occurs twice.
Listings ==
    UNION { { l \in [1..n -> DirEntries] :
                \A i, j \in 1..n : i # j => l[i] # l[j] } : n \in 0..MaxFiles }

ExitCodes == {0, 42}

VARIABLES
    pc,                 \* position in CallApplicationMain / its callees
    retval,             \* what CallApplicationMain returned: "none" so far
    data,               \* CALL_APPLICATION_MAIN_DATA
    exePath,            \* GetModuleFileName(NULL)
    buildTarget,        \* which side of #if (line 116) is compiled
    envCoreClrDir,      \* CORECLR_DIR
    osLoader,           \* what the OS has for each candidate loader module
    dirListing,         \* content of the runtime directory
    calls,              \* external operations invoked so far, with outcome
    dllDirectories,     \* directories added to the DLL search path
    \* LoadCoreClr locals
    wszClrPath, dwModuleFileName, hOSLoaderModule, pFnAddDllDirectory,
    pFnSetDefaultDllDirectories, fSuccess, hCoreCLRModule,
    \* CallApplicationMain locals
    hr, szCurrentDirectory, szCoreClrDirectory, lpCoreClrModulePath,
    tpa,                \* content of pwszTrustedPlatformAssemblies
    tpaBuffer,          \* "null", "allocated" or "freed"
    freeCount,          \* number of free() calls on the buffer
    wszAppPaths, property_values, domainCreated, hostMainArgs,
    \* ScanDirectory locals
    szPattern, ret, ffdIndex

inputVars == <<data, exePath, buildTarget, envCoreClrDir>>

loaderVars == <<wszClrPath, dwModuleFileName, hOSLoaderModule,
                pFnAddDllDirectory, pFnSetDefaultDllDirectories, fSuccess,
                hCoreCLRModule, osLoader, dllDirectories>>

hostVars == <<hr, szCurrentDirectory, szCoreClrDirectory, lpCoreClrModulePath,
              wszAppPaths, property_values, domainCreated, hostMainArgs>>

bufferVars == <<tpa, tpaBuffer, freeCount>>

scanVars == <<szPattern, ret, ffdIndex, dirListing>>

vars == <<pc, retval, calls, inputVars, loaderVars, hostVars, bufferVars,
          scanVars>>

Call(op, arg, ok) == [op |-> op, arg |-> arg, ok |-> ok]

Init ==
    /\ pc = "CurrentDirectory"
    /\ retval = "none"
    /\ \E k \in KlrDirectories, e \in ExePaths :
          /\ (~k.isNull => e = "e\\klr.exe")
          /\ data = [klrDirectory |-> k, applicationBase |-> "app\\",
                     argc |-> 2, argv |-> <<"klr", "run">>, exitcode |-> 0 - 1]
          /\ exePath = e
    /\ buildTarget \in BuildTargets
    /\ envCoreClrDir \in EnvCoreClrDirs
    /\ osLoader = [i \in 1..2 |-> NoModule]
    /\ dirListing = <<>>
    /\ calls = <<>>
    /\ dllDirectories = {}
    /\ wszClrPath = ""
    /\ dwModuleFileName = 0
    /\ hOSLoaderModule = FALSE
    /\ pFnAddDllDirectory = FALSE
    /\ pFnSetDefaultDllDirectories = FALSE
    /\ fSuccess = TRUE
    /\ hCoreCLRModule = "nullptr"
    /\ hr = "S_OK"
    /\ szCurrentDirectory = ""
    /\ szCoreClrDirectory = ""
    /\ lpCoreClrModulePath = ""
    /\ tpa = ""
    /\ tpaBuffer = "null"
    /\ freeCount = 0
    /\ wszAppPaths = ""
    /\ property_values = <<>>
    /\ domainCreated = FALSE
    /\ hostMainArgs = <<>>
    /\ szPattern = ""
    /\ ret = TRUE
    /\ ffdIndex = 0

(***************************************************************************)
(* CallApplicationMain, lines 254-260: the application directory.          *)
(* GetModuleDirectory's out-of-bounds access is undefined behaviour: the   *)
(* process may crash, or go on with whatever the buffer then holds.        *)
(***************************************************************************)
GarbageDirectories == {""}

Crash == "<access violation>"

\* What a GetModuleDirectory call can leave in szPath.
ModuleDirectories(fileName) ==
    IF GetModuleDirectoryIndex(fileName) # OutOfBounds
    THEN {GetModuleDirectory(fileName)}
    ELSE GarbageDirectories \cup {Crash}

CAM_CurrentDirectory ==
    /\ pc = "CurrentDirectory"
    /\ IF ~data.klrDirectory.isNull
       THEN LET r == wcscpy_s(MAX_PATH, data.klrDirectory.str) IN
            /\ szCurrentDirectory' = r.dest
            /\ pc' = IF r.errno # 0 THEN "Finished" ELSE "LoadCoreClr"
       ELSE \E d \in ModuleDirectories(exePath) :
               IF d = Crash
               THEN /\ pc' = "crashed"
                    /\ UNCHANGED szCurrentDirectory
               ELSE /\ szCurrentDirectory' = d
                    /\ pc' = "LoadCoreClr"
    /\ UNCHANGED <<retval, calls, inputVars, loaderVars, hr,
                   szCoreClrDirectory, lpCoreClrModulePath, wszAppPaths,
                   property_values, domainCreated, hostMainArgs, bufferVars,
                   scanVars>>

(***************************************************************************)
(* LoadCoreClr, lines 91-240.                                              *)
(***************************************************************************)
camVars == <<retval, inputVars, hostVars, bufferVars, scanVars>>

\* Lines 96-99: read CORECLR_DIR.
LC_GetEnvironmentVariable ==
    /\ pc = "LoadCoreClr"
    /\ pc' = IF Len(envCoreClrDir) # 0 THEN "lc_path" ELSE "lc_development"
    /\ hCoreCLRModule' = "nullptr"
    /\ UNCHANGED <<calls, camVars, wszClrPath, dwModuleFileName,
                   hOSLoaderModule, pFnAddDllDirectory,
                   pFnSetDefaultDllDirectories, fSuccess, osLoader,
                   dllDirectories>>

\* Lines 101-114: CORECLR_DIR, a separator when it has none, coreclr.dll.
\* Lines 121-139 follow: the scan starts at the first candidate, on a system
\* whose loader modules are fixed from here on.
ClrPath(dir) ==
    LET r1 == wcscpy_s(MAX_PATH, dir)
        r2 == IF r1.errno # 0 THEN r1
              ELSE IF CharAt(r1.dest, Len(r1.dest) - 1) # "\\"
                   THEN wcscat_s(r1.dest, MAX_PATH, "\\")
                   ELSE r1
    IN  IF r2.errno # 0 THEN r2 ELSE wcscat_s(r2.dest, MAX_PATH, "coreclr.dll")

LC_BuildPath ==
    /\ pc = "lc_path"
    /\ LET r == ClrPath(envCoreClrDir) IN
       /\ wszClrPath' = r.dest
       /\ pc' = IF r.errno # 0 THEN "lc_finished"
                ELSE IF buildTarget = "Win7PlusCoreSystem" THEN "lc_while"
                ELSE "lc_adddlldirectory"
       /\ IF r.errno = 0 /\ buildTarget = "Win7PlusCoreSystem"
          THEN osLoader' \in OSLoaders
          ELSE UNCHANGED osLoader
    /\ dwModuleFileName' = 0
    /\ UNCHANGED <<calls, camVars, hOSLoaderModule, pFnAddDllDirectory,
                   pFnSetDefaultDllDirectories, fSuccess, hCoreCLRModule,
                   dllDirectories>>

\* rgwszModuleFileName, which the code keeps equal to
\* rgwzOSLoaderModuleNames[dwModuleFileName].
rgwszModuleFileName == rgwzOSLoaderModuleNames[dwModuleFileName + 1]

\* Line 140: the loop condition.
LC_While ==
    /\ pc = "lc_while"
    /\ pc' = IF rgwszModuleFileName # "NULL" THEN "lc_loadmodule" ELSE "lc_check"
    /\ UNCHANGED <<calls, camVars, loaderVars>>

\* Lines 142-153: load the candidate; on failure `continue` re-enters the
\* loop without advancing dwModuleFileName.
LC_LoadOSLoaderModule ==
    /\ pc = "lc_loadmodule"
    /\ hOSLoaderModule' = osLoader[dwModuleFileName + 1].loads
    /\ pc' = IF ~hOSLoaderModule' THEN "lc_while" ELSE "lc_getadd"
    /\ UNCHANGED <<calls, camVars, wszClrPath, dwModuleFileName,
                   pFnAddDllDirectory, pFnSetDefaultDllDirectories, fSuccess,
                   hCoreCLRModule, osLoader, dllDirectories>>

\* Lines 155-170: resolve AddDllDirectory; the FreeLibrary branch is guarded
\* by !hOSLoaderModule, which is false here.
LC_GetAddDllDirectory ==
    /\ pc = "lc_getadd"
    /\ pFnAddDllDirectory' = osLoader[dwModuleFileName + 1].AddDllDirectory
    /\ IF ~pFnAddDllDirectory'
       THEN /\ fSuccess' = FALSE
            /\ hOSLoaderModule' = (IF ~hOSLoaderModule THEN FALSE
                                   ELSE hOSLoaderModule)
            /\ pc' = "lc_while"
       ELSE /\ pc' = "lc_getset"
            /\ UNCHANGED <<fSuccess, hOSLoaderModule>>
    /\ UNCHANGED <<calls, camVars, wszClrPath, dwModuleFileName,
                   pFnSetDefaultDllDirectories, hCoreCLRModule, osLoader,
                   dllDirectories>>

\* Lines 172-187: resolve SetDefaultDllDirectories, likewise.
LC_GetSetDefaultDllDirectories ==
    /\ pc = "lc_getset"
    /\ pFnSetDefaultDllDirectories' =
          osLoader[dwModuleFileName + 1].SetDefaultDllDirectories
    /\ IF ~pFnSetDefaultDllDirectories'
       THEN /\ fSuccess' = FALSE
            /\ hOSLoaderModule' = (IF ~hOSLoaderModule THEN FALSE
                                   ELSE hOSLoaderModule)
            /\ pc' = "lc_while"
       ELSE /\ pc' = "lc_both"
            /\ UNCHANGED <<fSuccess, hOSLoaderModule>>
    /\ UNCHANGED <<calls, camVars, wszClrPath, dwModuleFileName,
                   pFnAddDllDirectory, hCoreCLRModule, osLoader,
                   dllDirectories>>

\* Lines 189-197: break when the module has both exports, else advance.
LC_BothExports ==
    /\ pc = "lc_both"
    /\ IF hOSLoaderModule /\ pFnAddDllDirectory /\ pFnSetDefaultDllDirectories
       THEN /\ pc' = "lc_check"
            /\ UNCHANGED dwModuleFileName
       ELSE /\ dwModuleFileName' = dwModuleFileName + 1
            /\ pc' = "lc_while"
    /\ UNCHANGED <<calls, camVars, wszClrPath, hOSLoaderModule,
                   pFnAddDllDirectory, pFnSetDefaultDllDirectories, fSuccess,
                   hCoreCLRModule, osLoader, dllDirectories>>

\* Lines 199-209: without the capability leave through Finished, with it
\* widen the DLL search path.
LC_CheckCapability ==
    /\ pc = "lc_check"
    /\ IF ~hOSLoaderModule \/ ~pFnAddDllDirectory
          \/ ~pFnSetDefaultDllDirectories
       THEN /\ fSuccess' = FALSE
            /\ pc' = "lc_finished"
            /\ UNCHANGED dllDirectories
       ELSE /\ dllDirectories' = dllDirectories \cup {envCoreClrDir}
            /\ fSuccess' = TRUE
            /\ pc' = "lc_loadclr"
    /\ UNCHANGED <<calls, camVars, wszClrPath, dwModuleFileName,
                   hOSLoaderModule, pFnAddDllDirectory,
                   pFnSetDefaultDllDirectories, hCoreCLRModule, osLoader>>

\* Lines 211-214: the other build calls the two functions directly.
LC_AddDllDirectory ==
    /\ pc = "lc_adddlldirectory"
    /\ dllDirectories' = dllDirectories \cup {envCoreClrDir}
    /\ pc' = "lc_loadclr"
    /\ UNCHANGED <<calls, camVars, wszClrPath, dwModuleFileName,
                   hOSLoaderModule, pFnAddDllDirectory,
                   pFnSetDefaultDllDirectories, fSuccess, hCoreCLRModule,
                   osLoader>>

\* Line 218: load from the CORECLR_DIR path.
LC_LoadFromCoreClrDir ==
    /\ pc = "lc_loadclr"
    /\ \E ok \in BOOLEAN :
          /\ calls' = Append(calls, Call("LoadLibraryExW", wszClrPath, ok))
          /\ hCoreCLRModule' = IF ok THEN "env" ELSE "nullptr"
    /\ pc' = "lc_development"
    /\ UNCHANGED <<camVars, wszClrPath, dwModuleFileName, hOSLoaderModule,
                   pFnAddDllDirectory, pFnSetDefaultDllDirectories, fSuccess,
                   osLoader, dllDirectories>>

\* Lines 221-229: the development-tree path.
LC_LoadDevelopment ==
    /\ pc = "lc_development"
    /\ IF hCoreCLRModule = "nullptr"
       THEN \E ok \in BOOLEAN :
               /\ calls' = Append(calls,
                                  Call("LoadLibraryExW", DevelopmentPath, ok))
               /\ hCoreCLRModule' = IF ok THEN "dev" ELSE "nullptr"
       ELSE UNCHANGED <<calls, hCoreCLRModule>>
    /\ pc' = "lc_bare"
    /\ UNCHANGED <<camVars, wszClrPath, dwModuleFileName, hOSLoaderModule,
                   pFnAddDllDirectory, pFnSetDefaultDllDirectories, fSuccess,
                   osLoader, dllDirectories>>

\* Lines 231-236: the bare file name.
LC_LoadBare ==
    /\ pc = "lc_bare"
    /\ IF hCoreCLRModule = "nullptr"
       THEN \E ok \in BOOLEAN :
               /\ calls' = Append(calls,
                                  Call("LoadLibraryExW", "coreclr.dll", ok))
               /\ hCoreCLRModule' = IF ok THEN "bare" ELSE "nullptr"
       ELSE UNCHANGED <<calls, hCoreCLRModule>>
    /\ pc' = "lc_finished"
    /\ UNCHANGED <<camVars, wszClrPath, dwModuleFileName, hOSLoaderModule,
                   pFnAddDllDirectory, pFnSetDefaultDllDirectories, fSuccess,
                   osLoader, dllDirectories>>

\* Lines 238-239: return hCoreCLRModule to line 262.
LC_Finished ==
    /\ pc = "lc_finished"
    /\ pc' = "CheckLocated"
    /\ UNCHANGED <<calls, camVars, loaderVars>>

LoadCoreClr ==
    \/ LC_GetEnvironmentVariable
    \/ LC_BuildPath
    \/ LC_While
    \/ LC_LoadOSLoaderModule
    \/ LC_GetAddDllDirectory
    \/ LC_GetSetDefaultDllDirectories
    \/ LC_BothExports
    \/ LC_CheckCapability
    \/ LC_AddDllDirectory
    \/ LC_LoadFromCoreClrDir
    \/ LC_LoadDevelopment
    \/ LC_LoadBare
    \/ LC_Finished

(***************************************************************************)
(* ScanDirectory, lines 25-89.                                             *)
(***************************************************************************)
\* FindFirstFile / FindNextFile match "*<suffix>" without regard to case.
Matches(cFileName, pattern) ==
    EndsWith(Lower(cFileName), Lower(Tail(pattern)))

\* The first entry at or after position from that the pattern matches, 0
\* when there is none (INVALID_HANDLE_VALUE, or FindNextFile returning 0).
NextMatch(listing, pattern, from) ==
    LET hits == { i \in from..Len(listing) :
                    Matches(listing[i].cFileName, pattern) }
    IN  IF hits = {} THEN 0
        ELSE CHOOSE i \in hits : \A j \in hits : i <= j

\* The wcscmp chain with the comparison of line 57 left out.
IsExcluded_Short(cFileName) ==
    \/ cFileName = "klr.host.dll"
    \/ cFileName = "Microsoft.Framework.ApplicationHost.dll"
    \/ cFileName = "Microsoft.Framework.ApplicationHost.ni.dll"
    \/ cFileName = "Microsoft.Framework.Runtime.dll"
    \/ cFileName = "Microsoft.Framework.Runtime.ni.dll"
    \/ cFileName = "Microsoft.Framework.Runtime.Roslyn.dll"
    \/ cFileName = "Microsoft.Framework.Runtime.Roslyn.ni.dll"
    \/ cFileName = "Microsoft.Framework.Project.dll"
    \/ cFileName = "Microsoft.Framework.Project.ni.dll"
    \/ cFileName = "Microsoft.Framework.DesignTimeHost.dll"
    \/ cFileName = "Microsoft.Framework.DesignTimeHost.ni.dll"

\* Lines 56-67: the wcscmp chain.
IsExcluded(cFileName) ==
    \/ cFileName = "klr.host.dll"
    \/ cFileName = "klr.host.ni.dll"
    \/ cFileName = "Microsoft.Framework.ApplicationHost.dll"
    \/ cFileName = "Microsoft.Framework.ApplicationHost.ni.dll"
    \/ cFileName = "Microsoft.Framework.Runtime.dll"
    \/ cFileName = "Microsoft.Framework.Runtime.ni.dll"
    \/ cFileName = "Microsoft.Framework.Runtime.Roslyn.dll"
    \/ cFileName = "Microsoft.Framework.Runtime.Roslyn.ni.dll"
    \/ cFileName = "Microsoft.Framework.Project.dll"
    \/ cFileName = "Microsoft.Framework.Project.ni.dll"
    \/ cFileName = "Microsoft.Framework.DesignTimeHost.dll"
    \/ cFileName = "Microsoft.Framework.DesignTimeHost.ni.dll"

\* AppendEntry with file name and directory in the wrong order.
AppendEntry_Swapped(buffer, cch, szDirectory, cFileName) ==
    LET r1 == wcscat_s(buffer, cch, cFileName)
        r2 == IF r1.errno # 0 THEN r1 ELSE wcscat_s(r1.dest, cch, szDirectory)
    IN  IF r2.errno # 0 THEN r2 ELSE wcscat_s(r2.dest, cch, ";")

\* Lines 75-82: directory, file name and ";" appended in turn, stopping at
\* the first failure.
AppendEntry(buffer, cch, szDirectory, cFileName) ==
    LET r1 == wcscat_s(buffer, cch, szDirectory)
        r2 == IF r1.errno # 0 THEN r1 ELSE wcscat_s(r1.dest, cch, cFileName)
    IN  IF r2.errno # 0 THEN r2 ELSE wcscat_s(r2.dest, cch, ";")

\* Lines 34-38: the search pattern, directory then pattern.
SearchPattern(szDirectory, pattern) ==
    LET r1 == wcscpy_s(MAX_PATH, szDirectory)
    IN  IF r1.errno # 0 THEN r1 ELSE wcscat_s(r1.dest, MAX_PATH, pattern)

sdFrame == <<retval, inputVars, loaderVars, hostVars, tpaBuffer, freeCount,
             szPattern, dirListing>>

\* Lines 27-46: build the search pattern and start the enumeration.
SD_FindFirstFile ==
    /\ pc = "sd_begin"
    /\ LET first == NextMatch(dirListing, szPattern, 1) IN
       IF SearchPattern(szCoreClrDirectory, szPattern).errno # 0 \/ first = 0
       THEN /\ ret' = FALSE
            /\ pc' = "sd_finished"
            /\ UNCHANGED ffdIndex
       ELSE /\ ret' = TRUE
            /\ ffdIndex' = first
            /\ pc' = "sd_entry"
    /\ UNCHANGED <<calls, sdFrame, tpa>>

\* Lines 48-85: one pass of the do-while loop, FindNextFile included.
SD_Entry ==
    /\ pc = "sd_entry"
    /\ LET ffd == dirListing[ffdIndex]
           r == IF ffd.isDirectory \/ IsExcluded(ffd.cFileName)
                THEN [errno |-> 0, dest |-> tpa]
                ELSE AppendEntry(tpa,
                         TRUSTED_PLATFORM_ASSEMBLIES_STRING_BUFFER_SIZE_CCH,
                         szCoreClrDirectory, ffd.cFileName)
           next == NextMatch(dirListing, szPattern, ffdIndex + 1)
       IN  /\ tpa' = r.dest
           /\ IF r.errno # 0
              THEN /\ ret' = FALSE
                   /\ pc' = "sd_finished"
                   /\ UNCHANGED ffdIndex
              ELSE /\ UNCHANGED ret
                   /\ IF next # 0
                      THEN /\ ffdIndex' = next
                           /\ pc' = "sd_entry"
                      ELSE /\ pc' = "sd_finished"
                           /\ UNCHANGED ffdIndex
    /\ UNCHANGED <<calls, sdFrame>>

\* Lines 87-88: return ret to the call at line 353 or 355.
SD_Finished ==
    /\ pc = "sd_finished"
    /\ calls' = Append(calls, Call("ScanDirectory", szPattern, ret))
    /\ pc' = IF szPattern = "*.ni.dll" THEN "AfterNativeScan"
             ELSE "AfterGenericScan"
    /\ UNCHANGED <<sdFrame, tpa, ret, ffdIndex>>

ScanDirectory ==
    \/ SD_FindFirstFile
    \/ SD_Entry
    \/ SD_Finished

(***************************************************************************)
(* CallApplicationMain, lines 262-462.                                     *)
(***************************************************************************)
\* The full path of the module a handle stands for; a null handle stands
\* for the executable.
ModuleFileName(hModule) ==
    CASE hModule = "nullptr" -> exePath
      [] hModule = "env" -> wszClrPath
      [] hModule = "dev" -> DevModulePath
      [] hModule = "bare" -> BareModulePath

\* CAM_CheckLocated without the test of line 263.
CAM_CheckLocated_NoTest ==
    /\ pc = "CheckLocated"
    /\ pc' = "ModulePath"
    /\ UNCHANGED <<retval, calls, inputVars, loaderVars, hostVars, bufferVars,
                   scanVars>>

\* Lines 262-267.
CAM_CheckLocated ==
    /\ pc = "CheckLocated"
    /\ IF hCoreCLRModule = "nullptr"
       THEN /\ pc' = "returned"
            /\ retval' = "false"
       ELSE /\ pc' = "ModulePath"
            /\ UNCHANGED retval
    /\ UNCHANGED <<calls, inputVars, loaderVars, hostVars, bufferVars,
                   scanVars>>

\* Lines 270-273: the module's path and its directory.
CAM_ModulePath ==
    /\ pc = "ModulePath"
    /\ lpCoreClrModulePath' = ModuleFileName(hCoreCLRModule)
    /\ \E d \in ModuleDirectories(ModuleFileName(hCoreCLRModule)) :
          IF d = Crash
          THEN /\ pc' = "crashed"
               /\ UNCHANGED szCoreClrDirectory
          ELSE /\ szCoreClrDirectory' = d
               /\ pc' = "Pin"
    /\ UNCHANGED <<retval, calls, inputVars, loaderVars, hr,
                   szCurrentDirectory, wszAppPaths, property_values,
                   domainCreated, hostMainArgs, bufferVars, scanVars>>

hostFrame == <<inputVars, loaderVars, szCurrentDirectory, szCoreClrDirectory,
               lpCoreClrModulePath, wszAppPaths, hostMainArgs, bufferVars,
               scanVars>>

\* Lines 275-281: pin coreclr.dll.
CAM_Pin ==
    /\ pc = "Pin"
    /\ \E ok \in BOOLEAN :
          /\ calls' = Append(calls,
                             Call("GetModuleHandleExW", lpCoreClrModulePath, ok))
          /\ IF ~ok
             THEN /\ pc' = "returned"
                  /\ retval' = "false"
             ELSE /\ pc' = "GetProcAddress"
                  /\ UNCHANGED retval
    /\ UNCHANGED <<hostFrame, hr, property_values, domainCreated>>

\* Lines 283-288: the GetCLRRuntimeHost export.
CAM_GetProcAddress ==
    /\ pc = "GetProcAddress"
    /\ \E ok \in BOOLEAN :
          /\ calls' = Append(calls,
                             Call("GetProcAddress", "GetCLRRuntimeHost", ok))
          /\ IF ~ok
             THEN /\ pc' = "returned"
                  /\ retval' = "false"
             ELSE /\ pc' = "GetCLRRuntimeHost"
                  /\ UNCHANGED retval
    /\ UNCHANGED <<hostFrame, hr, property_values, domainCreated>>

\* Lines 290-295: the host interface.
CAM_GetCLRRuntimeHost ==
    /\ pc = "GetCLRRuntimeHost"
    /\ \E h \in HRESULTS :
          /\ hr' = h
          /\ calls' = Append(calls, Call("GetCLRRuntimeHost", "", ~FAILED(h)))
          /\ IF FAILED(h)
             THEN /\ pc' = "returned"
                  /\ retval' = "false"
             ELSE /\ pc' = "SetStartupFlags"
                  /\ UNCHANGED retval
    /\ UNCHANGED <<hostFrame, property_values, domainCreated>>

\* Lines 297-303: the result of SetStartupFlags is not stored.
CAM_SetStartupFlags ==
    /\ pc = "SetStartupFlags"
    /\ \E h \in HRESULTS :
          calls' = Append(calls, Call("SetStartupFlags", "", ~FAILED(h)))
    /\ pc' = "Authenticate"
    /\ UNCHANGED <<retval, hostFrame, hr, property_values, domainCreated>>

\* CAM_Authenticate going on to Start whatever Authenticate returned.
CAM_Authenticate_Unchecked ==
    /\ pc = "Authenticate"
    /\ \E h \in HRESULTS :
          /\ hr' = h
          /\ calls' = Append(calls, Call("Authenticate", "", ~FAILED(h)))
    /\ pc' = "Start"
    /\ UNCHANGED <<retval, hostFrame, property_values, domainCreated>>

\* Lines 305-311.
CAM_Authenticate ==
    /\ pc = "Authenticate"
    /\ \E h \in HRESULTS :
          /\ hr' = h
          /\ calls' = Append(calls, Call("Authenticate", "", ~FAILED(h)))
          /\ IF FAILED(h)
             THEN /\ pc' = "returned"
                  /\ retval' = "false"
             ELSE /\ pc' = "Start"
                  /\ UNCHANGED retval
    /\ UNCHANGED <<hostFrame, property_values, domainCreated>>

\* CAM_Start going on to the property building whatever Start returned.
CAM_Start_Unchecked ==
    /\ pc = "Start"
    /\ \E h \in HRESULTS :
          /\ hr' = h
          /\ calls' = Append(calls, Call("Start", "", ~FAILED(h)))
    /\ pc' = "Allocate"
    /\ UNCHANGED <<retval, hostFrame, property_values, domainCreated>>

\* Lines 313-319.
CAM_Start ==
    /\ pc = "Start"
    /\ \E h \in HRESULTS :
          /\ hr' = h
          /\ calls' = Append(calls, Call("Start", "", ~FAILED(h)))
          /\ IF FAILED(h)
             THEN /\ pc' = "returned"
                  /\ retval' = "false"
             ELSE /\ pc' = "Allocate"
                  /\ UNCHANGED retval
    /\ UNCHANGED <<hostFrame, property_values, domainCreated>>

\* Lines 344-350: the trusted-assembly buffer.
CAM_Allocate ==
    /\ pc = "Allocate"
    /\ \E ok \in BOOLEAN :
          /\ calls' = Append(calls, Call("calloc", "", ok))
          /\ IF ~ok
             THEN /\ pc' = "Finished"
                  /\ UNCHANGED <<tpa, tpaBuffer>>
             ELSE /\ tpaBuffer' = "allocated"
                  /\ tpa' = ""
                  /\ pc' = "ScanNative"
    /\ UNCHANGED <<retval, inputVars, loaderVars, hostVars, freeCount,
                   scanVars>>

\* Line 353: the call for native images.  The runtime directory is looked
\* at here for the first time; both scans enumerate the same content.
CAM_ScanNativeImages ==
    /\ pc = "ScanNative"
    /\ dirListing' \in Listings
    /\ szPattern' = "*.ni.dll"
    /\ pc' = "sd_begin"
    /\ UNCHANGED <<retval, calls, inputVars, loaderVars, hostVars, bufferVars,
                   ret, ffdIndex>>

\* Lines 353-355: a false result leads to the call with the generic pattern.
CAM_AfterNativeScan ==
    /\ pc = "AfterNativeScan"
    /\ IF ~ret
       THEN /\ szPattern' = "*.dll"
            /\ pc' = "sd_begin"
       ELSE /\ pc' = "AppendManaged"
            /\ UNCHANGED szPattern
    /\ UNCHANGED <<retval, calls, inputVars, loaderVars, hostVars, bufferVars,
                   ret, ffdIndex, dirListing>>

\* Lines 355-359: a false result of the second call returns false.
CAM_AfterGenericScan ==
    /\ pc = "AfterGenericScan"
    /\ IF ~ret
       THEN /\ pc' = "returned"
            /\ retval' = "false"
       ELSE /\ pc' = "AppendManaged"
            /\ UNCHANGED retval
    /\ UNCHANGED <<calls, inputVars, loaderVars, hostVars, bufferVars,
                   scanVars>>

\* Lines 362-368: the assembly holding the app domain manager.
AppendManaged(buffer, cch, dir) ==
    LET r1 == wcscat_s(buffer, cch, dir)
    IN  IF r1.errno # 0 THEN r1
        ELSE wcscat_s(r1.dest, cch, "klr.core45.managed.dll")

CAM_AppendManaged ==
    /\ pc = "AppendManaged"
    /\ LET r == AppendManaged(tpa,
                    TRUSTED_PLATFORM_ASSEMBLIES_STRING_BUFFER_SIZE_CCH,
                    szCurrentDirectory)
       IN  /\ tpa' = r.dest
           /\ pc' = IF r.errno # 0 THEN "Finished" ELSE "AppPaths"
    /\ UNCHANGED <<retval, calls, inputVars, loaderVars, hostVars, tpaBuffer,
                   freeCount, scanVars>>

\* AppPaths with the two directories in the wrong order.
AppPaths_Swapped(appDir, clrDir) ==
    LET r1 == wcscat_s("", MAX_PATH, clrDir)
        r2 == IF r1.errno # 0 THEN r1 ELSE wcscat_s(r1.dest, MAX_PATH, ";")
        r3 == IF r2.errno # 0 THEN r2 ELSE wcscat_s(r2.dest, MAX_PATH, appDir)
    IN  IF r3.errno # 0 THEN r3 ELSE wcscat_s(r3.dest, MAX_PATH, ";")

\* Lines 370-384: application directory ; runtime directory ;
AppPaths(appDir, clrDir) ==
    LET r1 == wcscat_s("", MAX_PATH, appDir)
        r2 == IF r1.errno # 0 THEN r1 ELSE wcscat_s(r1.dest, MAX_PATH, ";")
        r3 == IF r2.errno # 0 THEN r2 ELSE wcscat_s(r2.dest, MAX_PATH, clrDir)
    IN  IF r3.errno # 0 THEN r3 ELSE wcscat_s(r3.dest, MAX_PATH, ";")

CAM_AppPaths ==
    /\ pc = "AppPaths"
    /\ LET r == AppPaths(szCurrentDirectory, szCoreClrDirectory)
       IN  /\ wszAppPaths' = r.dest
           /\ pc' = IF r.errno # 0 THEN "Finished"
                    ELSE "CreateAppDomainWithManager"
    /\ UNCHANGED <<retval, calls, inputVars, loaderVars, hr,
                   szCurrentDirectory, szCoreClrDirectory, lpCoreClrModulePath,
                   property_values, domainCreated, hostMainArgs, bufferVars,
                   scanVars>>

\* Lines 386-422.
CAM_CreateAppDomainWithManager ==
    /\ pc = "CreateAppDomainWithManager"
    /\ property_values' = <<data.applicationBase, tpa, wszAppPaths>>
    /\ \E h \in HRESULTS :
          /\ hr' = h
          /\ calls' = Append(calls, Call("CreateAppDomainWithManager",
                                         "klr.core45.managed", ~FAILED(h)))
          /\ domainCreated' = ~FAILED(h)
          /\ IF FAILED(h)
             THEN /\ pc' = "returned"
                  /\ retval' = "false"
             ELSE /\ pc' = "CreateDelegate"
                  /\ UNCHANGED retval
    /\ UNCHANGED hostFrame

\* Lines 424-437.
CAM_CreateDelegate ==
    /\ pc = "CreateDelegate"
    /\ \E h \in HRESULTS :
          /\ hr' = h
          /\ calls' = Append(calls, Call("CreateDelegate",
                                         "DomainManager.Execute", ~FAILED(h)))
          /\ IF FAILED(h)
             THEN /\ pc' = "returned"
                  /\ retval' = "false"
             ELSE /\ pc' = "HostMain"
                  /\ UNCHANGED retval
    /\ UNCHANGED <<hostFrame, property_values, domainCreated>>

\* CAM_HostMain dropping what the entry delegate returned.
CAM_HostMain_Discard ==
    /\ pc = "HostMain"
    /\ \E code \in ExitCodes :
          calls' = Append(Append(calls,
                    Call("SetEnvironmentVariable", "KRE_FRAMEWORK", TRUE)),
                    Call("HostMain", ToString(code), TRUE))
    /\ hostMainArgs' = <<data.argc, data.argv>>
    /\ pc' = "UnloadAppDomain"
    /\ UNCHANGED <<retval, inputVars, loaderVars, hr,
                   szCurrentDirectory, szCoreClrDirectory, lpCoreClrModulePath,
                   wszAppPaths, property_values, domainCreated, bufferVars,
                   scanVars>>

\* Lines 439-442: publish KRE_FRAMEWORK and call the entry delegate.  The
\* log entry of the delegate carries the value it returned.
CAM_HostMain ==
    /\ pc = "HostMain"
    /\ \E code \in ExitCodes :
          /\ data' = [data EXCEPT !.exitcode = code]
          /\ calls' = Append(Append(calls,
                    Call("SetEnvironmentVariable", "KRE_FRAMEWORK", TRUE)),
                    Call("HostMain", ToString(code), TRUE))
    /\ hostMainArgs' = <<data.argc, data.argv>>
    /\ pc' = "UnloadAppDomain"
    /\ UNCHANGED <<retval, exePath, buildTarget, envCoreClrDir, loaderVars, hr,
                   szCurrentDirectory, szCoreClrDirectory, lpCoreClrModulePath,
                   wszAppPaths, property_values, domainCreated, bufferVars,
                   scanVars>>

\* Line 444: the result is not stored.
CAM_UnloadAppDomain ==
    /\ pc = "UnloadAppDomain"
    /\ \E h \in HRESULTS :
          calls' = Append(calls, Call("UnloadAppDomain", "", ~FAILED(h)))
    /\ domainCreated' = FALSE
    /\ pc' = "Stop"
    /\ UNCHANGED <<retval, hostFrame, hr, property_values>>

\* Line 446: the result is not stored.
CAM_Stop ==
    /\ pc = "Stop"
    /\ \E h \in HRESULTS :
          calls' = Append(calls, Call("Stop", "", ~FAILED(h)))
    /\ pc' = "Finished"
    /\ UNCHANGED <<retval, hostFrame, hr, property_values, domainCreated>>

\* Lines 448-462: release the buffer, return by the last stored HRESULT.
CAM_Finished ==
    /\ pc = "Finished"
    /\ IF tpaBuffer = "allocated"
       THEN /\ tpaBuffer' = "freed"
            /\ freeCount' = freeCount + 1
       ELSE UNCHANGED <<tpaBuffer, freeCount>>
    /\ retval' = (IF FAILED(hr) THEN "false" ELSE "true")
    /\ pc' = "returned"
    /\ UNCHANGED <<calls, inputVars, loaderVars, hostVars, tpa, scanVars>>

CallApplicationMain ==
    \/ CAM_CurrentDirectory
    \/ CAM_CheckLocated
    \/ CAM_ModulePath
    \/ CAM_Pin
    \/ CAM_GetProcAddress
    \/ CAM_GetCLRRuntimeHost
    \/ CAM_SetStartupFlags
    \/ CAM_Authenticate
    \/ CAM_Start
    \/ CAM_Allocate
    \/ CAM_ScanNativeImages
    \/ CAM_AfterNativeScan
    \/ CAM_AfterGenericScan
    \/ CAM_AppendManaged
    \/ CAM_AppPaths
    \/ CAM_CreateAppDomainWithManager
    \/ CAM_CreateDelegate
    \/ CAM_HostMain
    \/ CAM_UnloadAppDomain
    \/ CAM_Stop
    \/ CAM_Finished

Next ==
    \/ CallApplicationMain
    \/ LoadCoreClr
    \/ ScanDirectory

Spec == Init /\ [][Next]_vars

\* The thread runs on while it has a step to take.
FairSpec == Spec /\ WF_vars(Next)

(***************************************************************************)
(* Properties.                                                             *)
(***************************************************************************)
CallsOf(op) == { i \in 1..Len(calls) : calls[i].op = op }

Succeeded(op, before) ==
    \E j \in CallsOf(op) : j < before /\ calls[j].ok

\* C1: CreateAppDomainWithManager is called only after a Start that
\* returned success, and CreateDelegate only after a
\* CreateAppDomainWithManager that returned success.
C1_ContextAfterStart ==
    /\ \A i \in CallsOf("CreateAppDomainWithManager") : Succeeded("Start", i)
    /\ \A i \in CallsOf("CreateDelegate") :
          Succeeded("CreateAppDomainWithManager", i)

\* A run that reached CreateDelegate.
C1_Witness ==
    /\ CallsOf("CreateDelegate") # {}
    /\ CallsOf("CreateAppDomainWithManager") # {}

\* C2: a failed Authenticate is the last thing the run does: the function
\* has returned false, and no Start, no scan, no property building, no
\* context creation, no delegate follows it.
C2_AuthenticateFailureStops ==
    \A i \in CallsOf("Authenticate") :
        ~calls[i].ok =>
            /\ i = Len(calls)
            /\ pc = "returned"
            /\ retval = "false"
            /\ tpaBuffer = "null"
            /\ tpa = ""
            /\ wszAppPaths = ""
            /\ property_values = <<>>
            /\ hostMainArgs = <<>>

\* A run in which Authenticate failed.
C2_Witness ==
    \E i \in CallsOf("Authenticate") : ~calls[i].ok /\ pc = "returned"

\* C3: when LoadCoreClr returns no handle, the next step returns false;
\* nothing but load attempts has been invoked and nothing is invoked by
\* that step (no pin, no host-interface operation).
C3_NotLocatedReturnsFalse ==
    [][ (pc = "CheckLocated" /\ hCoreCLRModule = "nullptr") =>
            /\ pc' = "returned"
            /\ retval' = "false"
            /\ calls' = calls
            /\ \A i \in 1..Len(calls) : calls[i].op = "LoadLibraryExW"
            /\ tpaBuffer' = "null" ]_vars

\* CORECLR_DIR unset, both remaining loads failed, false returned.
C3_Witness ==
    /\ pc = "returned"
    /\ retval = "false"
    /\ envCoreClrDir = ""
    /\ Len(calls) = 2
    /\ \A i \in 1..2 : calls[i].op = "LoadLibraryExW" /\ ~calls[i].ok

(***************************************************************************)
(* LoadCoreClr's three loads, as the log of a finished call shows them.    *)
(***************************************************************************)
IsEnvLoad(c) ==
    c.op = "LoadLibraryExW" /\ c.arg \notin {DevelopmentPath, "coreclr.dll"}

IsDevLoad(c) == c.op = "LoadLibraryExW" /\ c.arg = DevelopmentPath

IsBareLoad(c) == c.op = "LoadLibraryExW" /\ c.arg = "coreclr.dll"

EnvLoads == { i \in 1..Len(calls) : IsEnvLoad(calls[i]) }

DevLoads == { i \in 1..Len(calls) : IsDevLoad(calls[i]) }

BareLoads == { i \in 1..Len(calls) : IsBareLoad(calls[i]) }

AnyOk(indexes) == \E i \in indexes : calls[i].ok

\* C4: when LoadCoreClr has returned, the development-path load was
\* attempted exactly if the CORECLR_DIR step gave no handle, the bare-name
\* load exactly if neither gave one, the attempts are in that order, and
\* the handle returned is that of the first success (null if none).
C4_FallbackChain ==
    pc = "CheckLocated" =>
        /\ (DevLoads # {}) <=> ~AnyOk(EnvLoads)
        /\ (BareLoads # {}) <=> (~AnyOk(EnvLoads) /\ ~AnyOk(DevLoads))
        /\ \A i \in EnvLoads, j \in DevLoads \cup BareLoads : i < j
        /\ \A i \in DevLoads, j \in BareLoads : i < j
        /\ hCoreCLRModule =
              (IF AnyOk(EnvLoads) THEN "env"
               ELSE IF AnyOk(DevLoads) THEN "dev"
               ELSE IF AnyOk(BareLoads) THEN "bare" ELSE "nullptr")

\* The search-path capability: some candidate loads and has both exports.
CapabilityAvailable ==
    \E i \in 1..2 :
        /\ osLoader[i].loads
        /\ osLoader[i].AddDllDirectory
        /\ osLoader[i].SetDefaultDllDirectories

\* C5: with CORECLR_DIR set and no candidate module offering both exports,
\* LoadCoreClr goes on to attempt the load from the CORECLR_DIR path.
C5_LoadsWithoutCapability ==
    (pc = "lc_while" /\ ~CapabilityAvailable) ~> (EnvLoads # {})

(***************************************************************************)
(* The trusted-assembly list, read back as a consumer reads it.            *)
(***************************************************************************)
ExclusionSet ==
    {"klr.host.dll", "klr.host.ni.dll",
     "Microsoft.Framework.ApplicationHost.dll",
     "Microsoft.Framework.ApplicationHost.ni.dll",
     "Microsoft.Framework.Runtime.dll",
     "Microsoft.Framework.Runtime.ni.dll",
     "Microsoft.Framework.Runtime.Roslyn.dll",
     "Microsoft.Framework.Runtime.Roslyn.ni.dll",
     "Microsoft.Framework.Project.dll",
     "Microsoft.Framework.Project.ni.dll",
     "Microsoft.Framework.DesignTimeHost.dll",
     "Microsoft.Framework.DesignTimeHost.ni.dll"}

\* The pieces of str that ";" separates; cur is the piece being read.
RECURSIVE Pieces(_, _, _)
Pieces(str, cur, acc) ==
    IF str = "" THEN (IF cur = "" THEN acc ELSE Append(acc, cur))
    ELSE IF Head(str) = ";" THEN Pieces(Tail(str), "", Append(acc, cur))
    ELSE Pieces(Tail(str), cur \o Head(str), acc)

Entries(str) == Pieces(str, "", <<>>)

\* What follows the last path separator.
RECURSIVE AfterLastSeparator(_, _)
AfterLastSeparator(str, cur) ==
    IF str = "" THEN cur
    ELSE IF Head(str) = "\\" THEN AfterLastSeparator(Tail(str), "")
    ELSE AfterLastSeparator(Tail(str), cur \o Head(str))

FileNameOf(path) == AfterLastSeparator(path, "")

Range(seq) == { seq[i] : i \in 1..Len(seq) }

\* C6: no entry of the trusted-assembly buffer names an excluded file.
C6_NoExcludedEntry ==
    \A entry \in Range(Entries(tpa)) : FileNameOf(entry) \notin ExclusionSet

\* A scan that met an excluded file and still produced entries.
C6_Witness ==
    /\ pc = "sd_finished"
    /\ ret
    /\ tpa # ""
    /\ \E i \in 1..Len(dirListing) :
          /\ dirListing[i].cFileName \in ExclusionSet
          /\ ~dirListing[i].isDirectory
          /\ i < ffdIndex

\* The files of a listing a scan with the pattern is to list (the N), and
\* those of them that are not excluded (the N - E).
IsMatchingFile(e, pattern) ==
    /\ ~e.isDirectory
    /\ EndsWith(Lower(e.cFileName), Lower(SubSeq(pattern, 2, Len(pattern))))

MatchingFiles(listing, pattern) ==
    LET Test(e) == IsMatchingFile(e, pattern) IN SelectSeq(listing, Test)

UsableFiles(listing, pattern) ==
    LET Test(e) == IsMatchingFile(e, pattern) /\ e.cFileName \notin ExclusionSet
    IN  SelectSeq(listing, Test)

ExcludedFiles(listing, pattern) ==
    LET Test(e) == IsMatchingFile(e, pattern) /\ e.cFileName \in ExclusionSet
    IN  SelectSeq(listing, Test)

RECURSIVE Joined(_, _)
Joined(dir, files) ==
    IF files = <<>> THEN ""
    ELSE dir \o Head(files).cFileName \o ";" \o Joined(dir, Tail(files))

ExpectedEntries(dir, pattern, listing) ==
    Joined(dir, UsableFiles(listing, pattern))

Fits(str) ==
    Len(str) + 1 <= TRUSTED_PLATFORM_ASSEMBLIES_STRING_BUFFER_SIZE_CCH

\* C7: a scan whose entries fit leaves exactly the N - E entries
\* directory + file name + ";" in the buffer, in enumeration order.
C7_ScanAppendsUsableInOrder ==
    (pc = "sd_finished"
        /\ Fits(ExpectedEntries(szCoreClrDirectory, szPattern, dirListing)))
    => /\ tpa = ExpectedEntries(szCoreClrDirectory, szPattern, dirListing)
       /\ Entries(tpa) =
             [i \in 1..(Len(MatchingFiles(dirListing, szPattern))
                           - Len(ExcludedFiles(dirListing, szPattern))) |->
                szCoreClrDirectory
                    \o UsableFiles(dirListing, szPattern)[i].cFileName]

\* A scan over a subdirectory, an excluded file and two usable files that
\* the enumeration returns in other than alphabetical order.
C7_Witness ==
    /\ pc = "sd_finished"
    /\ szPattern = "*.ni.dll"
    /\ Len(dirListing) = 3
    /\ dirListing[1].cFileName = "klr.host.ni.dll"
    /\ dirListing[2].cFileName = "a.ni.dll"
    /\ dirListing[3].cFileName = "KLR.HOST.NI.DLL"
    /\ szCoreClrDirectory = "c\\"
    /\ tpa = "c\\a.ni.dll;c\\KLR.HOST.NI.DLL;"

(***************************************************************************)
(* The two scans of lines 352-360.                                         *)
(***************************************************************************)
NiPattern == "*.ni.dll"

GenericPattern == "*.dll"

GenericAttempted == szPattern = GenericPattern

PostScanPcs ==
    {"AppendManaged", "AppPaths", "CreateAppDomainWithManager",
     "CreateDelegate", "HostMain", "UnloadAppDomain", "Stop"}

\* C8: the generic scan is attempted only when the native-image scan has no
\* usable entry, and whenever it has none the generic scan is attempted and
\* its entries are the list.
C8_FallbackIffNoUsableEntry ==
    /\ GenericAttempted => UsableFiles(dirListing, NiPattern) = <<>>
    /\ (pc = "AppendManaged" /\ UsableFiles(dirListing, NiPattern) = <<>>)
          => /\ GenericAttempted
             /\ tpa = ExpectedEntries(szCoreClrDirectory, GenericPattern,
                                      dirListing)

NiOverflows ==
    ~Fits(ExpectedEntries(szCoreClrDirectory, NiPattern, dirListing))

\* C9: a scan that overflows the buffer fails the build: what it wrote is
\* not left in the buffer, property building is not entered, the generic
\* scan is not run as if nothing had matched, and a list handed to the host
\* has every entry of the scan it comes from.
C9_OverflowFailsBuild ==
    /\ (pc \in {"sd_finished", "AfterNativeScan", "AfterGenericScan"} /\ ~ret)
          => tpa = ""
    /\ NiOverflows => pc \notin PostScanPcs
    /\ NiOverflows => ~GenericAttempted
    /\ property_values # <<>> =>
          \A i \in 1..Len(UsableFiles(dirListing, szPattern)) :
              (szCoreClrDirectory
                  \o UsableFiles(dirListing, szPattern)[i].cFileName)
                  \in Range(Entries(property_values[2]))

(***************************************************************************)
(* The property table.                                                     *)
(***************************************************************************)
\* The directory part of a full path: up to its last separator.
DirName(path) ==
    LET seps == { i \in 1..Len(path) : SubSeq(path, i, i) = "\\" }
    IN  SubSeq(path, 1, CHOOSE i \in seps : \A j \in seps : j <= i)

\* The application directory: data->klrDirectory when given, else the
\* executable's directory (whatever szCurrentDirectory holds when the
\* executable's path could not be had).
AppDir ==
    IF ~data.klrDirectory.isNull THEN data.klrDirectory.str
    ELSE IF exePath # "" THEN DirName(exePath)
    ELSE szCurrentDirectory

RuntimeDir == DirName(lpCoreClrModulePath)

\* The pattern whose scan supplies the list: native images when the runtime
\* directory has any *.ni.dll entry, every *.dll otherwise.
SupplyingPattern ==
    IF \E i \in 1..Len(dirListing) :
          EndsWith(Lower(dirListing[i].cFileName), ".ni.dll")
    THEN NiPattern ELSE GenericPattern

SucceededBefore(op, i) ==
    \E j \in 1..(i - 1) : calls[j].op = op /\ calls[j].ok

\* C11: the entry delegate is invoked at most once, only after a successful
\* CreateDelegate, with the argc and argv of the caller's data; exitcode
\* holds what the delegate returned once it has run and its initial value
\* (-1, which no delegate returns here) in every other state, so a run
\* that fails before the delegate leaves it unchanged.
C11_DelegateOnceSetsExitCode ==
    /\ Cardinality(CallsOf("HostMain")) <= 1
    /\ data.argc = 2 /\ data.argv = <<"klr", "run">>
    /\ \A i \in CallsOf("HostMain") :
          /\ SucceededBefore("CreateDelegate", i)
          /\ hostMainArgs = <<data.argc, data.argv>>
          /\ ToString(data.exitcode) = calls[i].arg
    /\ CallsOf("HostMain") = {} =>
          /\ hostMainArgs = <<>>
          /\ data.exitcode = 0 - 1

\* A finished run whose delegate returned 42.
C11_Witness ==
    /\ pc = "returned"
    /\ retval = "true"
    /\ \E i \in CallsOf("HostMain") : calls[i].arg = "42"
    /\ data.exitcode = 42

\* C12: CallApplicationMain returns true only if the entry delegate was
\* invoked; every fatal failure before it (an unusable directory string, a
\* failed allocation, an overflow while building the properties included)
\* makes it return false.
C12_TrueOnlyAfterDelegate ==
    retval = "true" => CallsOf("HostMain") # {}

\* C13: when CallApplicationMain has returned, by whatever path, the
\* trusted-assembly buffer is not allocated any more: an allocated buffer
\* was freed, and freed once.
C13_BufferReleasedOnReturn ==
    pc = "returned" =>
        /\ tpaBuffer # "allocated"
        /\ freeCount = (IF \E i \in CallsOf("calloc") : calls[i].ok
                        THEN 1 ELSE 0)

HostInteractions ==
    {"GetCLRRuntimeHost", "SetStartupFlags", "Authenticate", "Start"}

\* C14: when the allocation of the trusted-assembly buffer is attempted no
\* host interaction has happened yet, and after a failed allocation none
\* happens.
C14_AllocationBeforeHost ==
    \A i \in CallsOf("calloc") :
        /\ \A j \in 1..(i - 1) : calls[j].op \notin HostInteractions
        /\ ~calls[i].ok =>
              \A j \in (i + 1)..Len(calls) : calls[j].op \notin HostInteractions

\* The operations of steps 1-9 that report success or failure.
StepOperations ==
    {"GetModuleHandleExW", "GetProcAddress", "GetCLRRuntimeHost",
     "SetStartupFlags", "Authenticate", "Start", "calloc",
     "CreateAppDomainWithManager", "CreateDelegate"}

\* C15: UnloadAppDomain and Stop are each invoked at most once, only after
\* the entry delegate has returned, UnloadAppDomain before Stop; a run in
\* which an operation of steps 1-9 failed (context creation and delegate
\* resolution included), or which returned without reaching the delegate,
\* invokes neither.
C15_TeardownOnlyAfterDelegate ==
    /\ Cardinality(CallsOf("UnloadAppDomain")) <= 1
    /\ Cardinality(CallsOf("Stop")) <= 1
    /\ \A i \in CallsOf("UnloadAppDomain") :
          \E j \in CallsOf("HostMain") : j < i
    /\ \A i \in CallsOf("Stop") :
          \E j \in CallsOf("UnloadAppDomain") : j < i
    /\ (\/ \E i \in 1..Len(calls) :
              calls[i].op \in StepOperations /\ ~calls[i].ok
        \/ (pc = "returned" /\ CallsOf("HostMain") = {}))
       => (CallsOf("UnloadAppDomain") = {} /\ CallsOf("Stop") = {})

\* The host state machine: each operation and the one whose success guards
\* its entry.
HostPredecessor ==
    [ SetStartupFlags |-> "GetCLRRuntimeHost",
      Authenticate |-> "SetStartupFlags",
      Start |-> "Authenticate",
      CreateAppDomainWithManager |-> "Start",
      CreateDelegate |-> "CreateAppDomainWithManager",
      HostMain |-> "CreateDelegate",
      UnloadAppDomain |-> "HostMain",
      Stop |-> "UnloadAppDomain" ]

\* C16: every operation of the host state machine is attempted only if
\* the previous state's operation succeeded; in particular Authenticate
\* only after a successful SetStartupFlags and Stop only after a
\* successful UnloadAppDomain.
C16_EntryGuardedBySuccess ==
    \A i \in 1..Len(calls) :
        calls[i].op \in DOMAIN HostPredecessor =>
            \E j \in 1..(i - 1) :
                /\ calls[j].op = HostPredecessor[calls[i].op]
                /\ calls[j].ok

\* C17: in the TRUSTED_PLATFORM_ASSEMBLIES value handed to
\* CreateAppDomainWithManager every entry, the last one (the entry
\* assembly) included, is terminated by ';'.
C17_EveryEntryTerminated ==
    CallsOf("CreateAppDomainWithManager") # {} =>
        /\ property_values[2] # ""
        /\ EndsWith(property_values[2], ";")

\* Positions of CallApplicationMain inside property building (lines
\* 352-384), where the two directory strings are consumed.
PropertyBuildingPcs ==
    {"ScanNative", "sd_begin", "sd_entry", "sd_finished", "AfterNativeScan",
     "AfterGenericScan", "AppendManaged", "AppPaths"}

\* C18: whenever property building is reached, the application directory
\* and the runtime directory both end with a path separator.
C18_DirectoriesEndWithSeparator ==
    pc \in PropertyBuildingPcs =>
        /\ EndsWith(szCurrentDirectory, "\\")
        /\ EndsWith(szCoreClrDirectory, "\\")

\* C19: LoadCoreClr always terminates: once called it eventually returns,
\* with a handle or null, whatever the candidate loader modules turn out
\* to be.
C19_LoadCoreClrTerminates ==
    (pc = "LoadCoreClr") ~> (pc = "CheckLocated")

\* C20: GetModuleDirectory's backward scan never leaves the MAX_PATH
\* buffer: for every module path it has been called with, the index it
\* stops at lies in 0..MAX_PATH-1, nothing outside szPath is accessed, and
\* a path without separator (or of length 0) yields the empty string.
C20_ScanIndexInBuffer ==
    /\ pc # "crashed"
    /\ (data.klrDirectory.isNull /\ pc # "CurrentDirectory") =>
          /\ GetModuleDirectoryIndex(exePath) \in 0..(MAX_PATH - 1)
          /\ exePath = "" => szCurrentDirectory = ""
=============================================================================
